---- MODULE Spec2Model ----
(***************************************************************************)
(* Tailing agents of the market-data processor.                            *)
(*                                                                         *)
(* Part 1 models the chunked agent (bseCash: src/unnamed/part_002; the     *)
(* agents of nseFNO.js lines 1-690, part_000, part_001 and index2.js share *)
(* the same readFile / startPolling): the start-up sequence, the daily     *)
(* file switch, the poll tick and one step per await of readFile.          *)
(* Part 2 models the readline agent (server.js, nseFNO.js lines 692-934).  *)
(*                                                                         *)
(* Bytes are single-byte characters; a file is a sequence of characters.   *)
(* Every await of the code is a point where another callback may run, so   *)
(* every await is the boundary between two actions.                        *)
(***************************************************************************)
EXTENDS Integers, Sequences, FiniteSets, TLC

\* ---------------------------------------------------------------- bounds
MaxBytes == 4      \* bytes the feed writes in all, over all files
MaxNow == 3        \* last clock instant explored
MaxCrashes == 1    \* process kills explored
MaxChunk == 2      \* largest CONFIG.chunkSize explored (bytes per read)
MaxCalls == 2      \* readline agent: processNewData calls in progress at once
MaxCsv == 3        \* readline agent: bytes the feed writes to FILE_PATH
MaxFails == 1      \* producer.send calls that fail
MaxTruncs == 1     \* truncations of a tailed file
BatchSize == 2     \* CONFIG.batchSize
NumCols == 2       \* CSV_HEADERS.length of the scaled-down schema
MaxLeaks == 1      \* file handles left open that are counted

NL == "\n"
DELIM == "|"
Chars == {"a", DELIM, NL}

\* The clock has two instants per day: 2(d-1) is day d before the switch
\* hour, 2(d-1)+1 is day d at or after the switch hour.
DayOf(t) == (t \div 2) + 1
Days == 1..DayOf(MaxNow)
\* switchToNewFile names the file after the date: one file per day.
FileOf(d) == d
Files == {FileOf(d) : d \in Days}
\* currentFilePath = "" and handle = null before the first open.
NoFile == 0

Min(a, b) == IF a < b THEN a ELSE b

\* ------------------------------------------------------- pure functions
Front(q) == SubSeq(q, 1, Len(q) - 1)
Last(q) == q[Len(q)]

\* String.prototype.split("\n"): the pieces between terminators, the last
\* piece being what follows the last terminator (possibly empty).
RECURSIVE Split(_)
Split(s) ==
  IF s = <<>> THEN << <<>> >>
  ELSE LET r == Split(Tail(s)) IN
       IF Head(s) = NL THEN << <<>> >> \o r
       ELSE << <<Head(s)>> \o Head(r) >> \o Tail(r)

\* 1-based indexes of the terminators of s, in order.
RECURSIVE NLIndexes(_, _)
NLIndexes(s, base) ==
  IF s = <<>> THEN <<>>
  ELSE (IF Head(s) = NL THEN <<base + 1>> ELSE <<>>) \o NLIndexes(Tail(s), base + 1)

\* Number of delimiter-separated fields of a non-empty line.
RECURSIVE CountDelims(_)
CountDelims(s) ==
  IF s = <<>> THEN 0
  ELSE (IF Head(s) = DELIM THEN 1 ELSE 0) + CountDelims(Tail(s))

\* The events fast-csv's parseString emits for one line under
\* { headers: CSV_HEADERS, strictColumnHandling: true }: "data" for a row
\* with exactly CSV_HEADERS.length columns, "data-invalid" for any other
\* column count, and nothing but "end" for a line with no row at all.
ParserEvent(line) ==
  IF line = <<>> THEN "end"
  ELSE IF CountDelims(line) + 1 = NumCols THEN "data"
  ELSE "data-invalid"

\* parseCsvRow: the promise resolves on "data" and rejects on "error";
\* no other event is listened to, so on any other event it stays pending.
ParseCsvRow(line) ==
  CASE ParserEvent(line) = "data" -> "resolve"
    [] ParserEvent(line) = "error" -> "reject"
    [] OTHER -> "pending"

\* A loadOffset that ignores the record (checks C5).
LoadOffsetIgnoresRecord(rec) == 0

\* The offset record of a file, as the store holds it: a natural number n
\* is the text {"offset":n}; the negative values are the records that hold
\* no integer. An absent record is -1.
NoRecord == 0 - 1
\* The record exists and cannot be read (_readFile rejects).
Unreadable == 0 - 2
\* The record is not valid JSON (JSON.parse throws a SyntaxError).
NotJson == 0 - 3
\* The record is the JSON text null (reading .offset of null throws).
JsonNull == 0 - 4
\* The record is a JSON object with no offset field.
NoOffsetField == 0 - 5
BadRecords == {Unreadable, NotJson, JsonNull, NoOffsetField}

\* The body of the try block of loadOffset:
\*   const data = await _readFile(...); return JSON.parse(data).offset || 0;
\* threw tells whether one of its three steps threw.
LoadOffsetTry(rec) ==
  IF rec \in {NoRecord, Unreadable} THEN [threw |-> TRUE, value |-> 0]
  ELSE IF rec = NotJson THEN [threw |-> TRUE, value |-> 0]
  ELSE IF rec = JsonNull THEN [threw |-> TRUE, value |-> 0]
  ELSE IF rec = NoOffsetField THEN [threw |-> FALSE, value |-> 0]
  ELSE [threw |-> FALSE, value |-> IF rec = 0 THEN 0 ELSE rec]

\* A loadOffset with no catch block (checks C20).
LoadOffsetCallWithoutCatch(rec) == LoadOffsetTry(rec)

\* loadOffset as its caller sees it: the catch block turns every throw of
\* the body into return 0.
LoadOffsetCall(rec) ==
  IF LoadOffsetTry(rec).threw THEN [threw |-> FALSE, value |-> 0]
  ELSE LoadOffsetTry(rec)

\* The value loadOffset returns.
LoadOffset(rec) == LoadOffsetCall(rec).value

\* ------------------------------------------------------ field coercion
\* A field text is a sequence of one-character strings. The texts explored
\* are built from FieldChars (digits, the decimal point, both exponent
\* letters, the plus sign and a letter that belongs to no number; no minus
\* sign and no white space), plus the texts of ExampleTexts.
MaxFieldLen == 3   \* longest field text built from FieldChars
FieldChars == {"0", "1", "5", ".", "e", "E", "+", "a"}
Digits == {"0", "1", "2", "3", "4", "5", "6", "7", "8", "9"}
Signs == {"+"}
DigitVal(c) ==
  CASE c = "0" -> 0 [] c = "1" -> 1 [] c = "2" -> 2 [] c = "3" -> 3
    [] c = "4" -> 4 [] c = "5" -> 5 [] c = "6" -> 6 [] c = "7" -> 7
    [] c = "8" -> 8 [] c = "9" -> 9

\* row[csvHeader] of a column the row does not have.
Undefined == <<"undefined">>

\* JavaScript values: typeof and a rendering. A number is rendered by the
\* numeric literal it was parsed from, NaN by "NaN".
Null == [t |-> "null", s |-> <<>>]
NaN == [t |-> "number", s |-> <<"NaN">>]
Num(lit) == [t |-> "number", s |-> lit]
Str(txt) == [t |-> "string", s |-> txt]
Bool(b) == [t |-> "boolean", s |-> IF b THEN <<"true">> ELSE <<"false">>]
\* A decimal string the model does not compute digit for digit: the
\* expansion of a double that is not the exact product.
Inexact == [t |-> "string", s |-> <<"?">>]

Drop(q, n) == SubSeq(q, n + 1, Len(q))

\* String.prototype.toLowerCase, on the letters that occur.
ToLowerChar(c) ==
  CASE c = "E" -> "e" [] c = "T" -> "t" [] c = "R" -> "r" [] c = "U" -> "u"
    [] OTHER -> c
ToLowerCase(txt) == [i \in DOMAIN txt |-> ToLowerChar(txt[i])]

\* String.prototype.split(c).
RECURSIVE SplitAt(_, _)
SplitAt(txt, c) ==
  IF txt = <<>> THEN << <<>> >>
  ELSE LET r == SplitAt(Tail(txt), c) IN
       IF Head(txt) = c THEN << <<>> >> \o r
       ELSE << <<Head(txt)>> \o Head(r) >> \o Tail(r)

\* The longest prefix of txt made of decimal digits.
RECURSIVE DigitPrefix(_)
DigitPrefix(txt) ==
  IF txt = <<>> \/ Head(txt) \notin Digits THEN <<>>
  ELSE <<Head(txt)>> \o DigitPrefix(Tail(txt))

SkipSign(txt) == IF txt # <<>> /\ Head(txt) \in Signs THEN Tail(txt) ELSE txt

\* The decimal digits of a natural number without its leading zeros.
RECURSIVE StripZeros(_)
StripZeros(ds) ==
  IF Len(ds) > 1 /\ Head(ds) = "0" THEN StripZeros(Tail(ds)) ELSE ds

\* The value of at most three digits; anything longer is beyond every
\* exponent a double can hold and is reported as 1000.
RECURSIVE DigitsToNat(_, _)
DigitsToNat(ds, acc) ==
  IF ds = <<>> THEN acc
  ELSE IF acc >= 1000 THEN 1000
  ELSE DigitsToNat(Tail(ds), 10 * acc + DigitVal(Head(ds)))

\* ds + 1 on decimal digits.
RECURSIVE Increment(_)
Increment(ds) ==
  IF ds = <<>> THEN <<"1">>
  ELSE IF Last(ds) = "9" THEN Increment(Front(ds)) \o <<"0">>
  ELSE Front(ds) \o <<CHOOSE c \in Digits : DigitVal(c) = DigitVal(Last(ds)) + 1>>

Zeros(n) == [i \in 1..n |-> "0"]
AllZero(ds) == \A i \in DOMAIN ds : ds[i] = "0"

\* parseInt(value, 10): an optional sign and the longest run of digits;
\* NaN when there is no digit. Never throws.
ParseInt(value) ==
  LET ds == DigitPrefix(SkipSign(value)) IN
  IF ds = <<>> THEN NaN ELSE Num(StripZeros(ds))

\* The mantissa at the start of txt: digits, optionally a point and more
\* digits, or a point and digits. len = 0 when txt starts with none.
Mantissa(txt) ==
  LET ip == DigitPrefix(txt)
      r == Drop(txt, Len(ip))
      hasDot == r # <<>> /\ Head(r) = "."
      fp == IF hasDot THEN DigitPrefix(Tail(r)) ELSE <<>>
  IN IF ip = <<>> /\ fp = <<>>
     THEN [ok |-> FALSE, ip |-> <<>>, fp |-> <<>>, len |-> 0]
     ELSE [ok |-> TRUE, ip |-> ip, fp |-> fp,
           len |-> Len(ip) + (IF hasDot THEN 1 + Len(fp) ELSE 0)]

\* Length of the exponent part at the start of txt: e or E, an optional
\* sign and at least one digit; 0 when txt starts with none.
ExponentLen(txt) ==
  IF txt # <<>> /\ Head(txt) \in {"e", "E"}
  THEN LET u == SkipSign(Tail(txt))
           ds == DigitPrefix(u)
       IN IF ds = <<>> THEN 0 ELSE 1 + (Len(Tail(txt)) - Len(u)) + Len(ds)
  ELSE 0

\* parseFloat(value): the longest prefix that is a decimal literal; NaN
\* when there is none. Never throws.
ParseFloat(value) ==
  LET body == SkipSign(value)
      m == Mantissa(body)
  IN IF ~m.ok THEN NaN
     ELSE Num(SubSeq(body, 1, m.len + ExponentLen(Drop(body, m.len))))

\* Number(txt) for a text without exponent letter: 0 for the empty text,
\* the value of a decimal literal that is the whole text, NaN otherwise.
NumberOf(txt) ==
  LET body == SkipSign(txt)
      m == Mantissa(body)
  IN IF txt = <<>> THEN [kind |-> "int", k |-> 0]
     ELSE IF ~m.ok \/ m.len # Len(body) THEN [kind |-> "nan", k |-> 0]
     ELSE IF ~AllZero(m.fp) THEN [kind |-> "frac", k |-> 0]
     ELSE [kind |-> "int", k |-> DigitsToNat(m.ip, 0)]

\* BigInt(str): an optional sign and digits, nothing else; a SyntaxError
\* otherwise. toString of the result is the digits without leading zeros.
BigIntOf(str) ==
  LET body == SkipSign(str) IN
  IF body # <<>> /\ DigitPrefix(body) = body
  THEN [threw |-> FALSE, v |-> Str(StripZeros(body))]
  ELSE [threw |-> TRUE, v |-> Null]

\* BigInt(Math.round(parseFloat(coeff) * Math.pow(10, Number(exp)))): the
\* decimal point of the coefficient moved exp places to the right and the
\* result rounded half up. BigInt throws a RangeError on NaN and on
\* Infinity (an exponent above 308). A product of more than 15 digits, or
\* one by a fractional power of ten, is not the exact double and is left
\* Inexact. In the texts explored a tie (.5) comes only from a coefficient
\* that ends in .5, which a double holds exactly.
ScaledBigInt(coeff, exp) ==
  LET m == Mantissa(SkipSign(coeff))
      n == NumberOf(exp)
      all == m.ip \o m.fp \o Zeros(n.k)
      cut == Len(m.ip) + n.k
      ip == StripZeros(IF cut = 0 THEN <<"0">> ELSE SubSeq(all, 1, cut))
      fp == Drop(all, cut)
      up == fp # <<>> /\ DigitVal(Head(fp)) >= 5
  IN IF ~m.ok \/ n.kind = "nan" THEN [threw |-> TRUE, v |-> Null]
     ELSE IF n.kind = "frac" THEN [threw |-> FALSE, v |-> Inexact]
     ELSE IF n.k > 308 THEN [threw |-> TRUE, v |-> Null]
     ELSE IF Len(ip) > 15 THEN [threw |-> FALSE, v |-> Inexact]
     ELSE [threw |-> FALSE, v |-> Str(IF up THEN Increment(ip) ELSE ip)]

HasExponentLetter(str) == \E i \in DOMAIN str : str[i] \in {"e", "E"}

\* A parseScientificBigInt that treats every text as a plain integer
\* (checks C27).
ParseScientificBigIntPlainOnly(str) == BigIntOf(str)

\* parseScientificBigInt(str).toString() for a non-empty str.
ParseScientificBigInt(str) ==
  IF ~HasExponentLetter(str) THEN BigIntOf(str)
  ELSE LET pieces == SplitAt(ToLowerCase(str), "e") IN
       ScaledBigInt(pieces[1], pieces[2])

TRUE_TEXT == <<"t", "r", "u", "e">>

\* The switch of parseValue of the chunked agents, inside its try.
ParseValueTry(value, type) ==
  CASE type = "int" -> [threw |-> FALSE, v |-> ParseInt(value)]
    [] type = "float" -> [threw |-> FALSE, v |-> ParseFloat(value)]
    [] type = "bool" ->
         [threw |-> FALSE, v |-> Bool(ToLowerCase(value) = TRUE_TEXT \/ value = <<"1">>)]
    [] type = "BigInt" -> ParseScientificBigInt(value)
    [] OTHER -> [threw |-> FALSE, v |-> Str(value)]

\* The switch of parseValue of the readline agents, inside its try: the
\* bool case is an expression statement with no return, so control falls
\* through to the BigInt case.
ParseValueTryRL(value, type) ==
  CASE type = "int" -> [threw |-> FALSE, v |-> ParseInt(value)]
    [] type = "float" -> [threw |-> FALSE, v |-> ParseFloat(value)]
    [] type = "bool" -> ParseScientificBigInt(value)
    [] type = "BigInt" -> ParseScientificBigInt(value)
    [] OTHER -> [threw |-> FALSE, v |-> Str(value)]

\* parseValue of the chunked agents as its caller sees it: null for a
\* missing or empty value, null when the switch threw.
ParseValueCall(value, type) ==
  IF value = Undefined \/ value = <<>> THEN [threw |-> FALSE, v |-> Null]
  ELSE IF ParseValueTry(value, type).threw THEN [threw |-> FALSE, v |-> Null]
  ELSE ParseValueTry(value, type)

ParseValue(value, type) == ParseValueCall(value, type).v

\* parseValue of the readline agents: '' for a missing or empty value,
\* null when the switch threw.
ParseValueRL(value, type) ==
  IF value = Undefined \/ value = <<>> THEN Str(<<>>)
  ELSE IF ParseValueTryRL(value, type).threw THEN Null
  ELSE ParseValueTryRL(value, type).v

\* The schema, scaled down to its first NumCols columns of Columns: one
\* column of each type of FIELD_TYPES, with the names of the source.
Columns ==
  << [csv |-> "Ordr id", db |-> "ordr_id", type |-> "BigInt"],
     [csv |-> "Membr id", db |-> "membr_id", type |-> "int"],
     [csv |-> "Ao/Po flag", db |-> "ao_po_flag", type |-> "bool"],
     [csv |-> "rate", db |-> "rate", type |-> "float"],
     [csv |-> "scrp id", db |-> "scrp_id", type |-> "str"] >>
Schema == SubSeq(Columns, 1, NumCols)
CSV_HEADERS == {Schema[i].csv : i \in DOMAIN Schema}
ColumnOf(h) == Schema[CHOOSE i \in DOMAIN Schema : Schema[i].csv = h]
HEADER_MAPPING == [h \in CSV_HEADERS |-> ColumnOf(h).db]
FIELD_TYPES == [h \in CSV_HEADERS |-> ColumnOf(h).type]

\* row[csvHeader]
Get(row, h) == IF h \in DOMAIN row THEN row[h] ELSE Undefined

\* mapped[dbField] = value
Put(mapped, k, val) ==
  [x \in DOMAIN mapped \cup {k} |-> IF x = k THEN val ELSE mapped[x]]

\* The loop of a mapRow that leaves out the columns the row does not have
\* (checks C25).
RECURSIVE MapEntriesPresentOnly(_, _, _)
MapEntriesPresentOnly(i, row, mapped) ==
  IF i > Len(Schema) THEN mapped
  ELSE MapEntriesPresentOnly(i + 1, row,
         IF Schema[i].csv \in DOMAIN row
         THEN Put(mapped, HEADER_MAPPING[Schema[i].csv],
                  ParseValue(Get(row, Schema[i].csv), FIELD_TYPES[Schema[i].csv]))
         ELSE mapped)

\* for (const [csvHeader, dbField] of Object.entries(HEADER_MAPPING))
\*   mapped[dbField] = parseValue(row[csvHeader], FIELD_TYPES[csvHeader])
RECURSIVE MapEntries(_, _, _)
MapEntries(i, row, mapped) ==
  IF i > Len(Schema) THEN mapped
  ELSE MapEntries(i + 1, row,
         Put(mapped, HEADER_MAPPING[Schema[i].csv],
             ParseValue(Get(row, Schema[i].csv), FIELD_TYPES[Schema[i].csv])))

\* mapRow(row), with the value randomUUID() returned: the record, and
\* whether a call of parseValue threw out of it.
MapRow(row, uuid) ==
  [threw |-> \E h \in CSV_HEADERS :
               ParseValueCall(Get(row, h), FIELD_TYPES[h]).threw,
   rec |-> Put(MapEntries(1, row, <<>>), "_uuid", Str(uuid))]

\* ------------------------------------------- the lenient agent's parser
\* nseFNO.js, lines 355-650: the chunked agent whose parseCsvRow passes
\* strictColumnHandling: false, trim: true and ignoreEmpty: true, and whose
\* HEADER_MAPPING ends with a column "_extra". A line is a sequence of
\* one-character strings over LineChars.
MaxLineLen == 4    \* longest line explored
COMMA == ","
SPACE == " "
LineChars == {"1", "a", COMMA, SPACE}

\* The lenient schema scaled down to two of its columns and "_extra", with
\* the names and types of the source.
LenientSchema ==
  << [csv |-> "Trade No", db |-> "trade_number", type |-> "int"],
     [csv |-> "Symbol", db |-> "symbol", type |-> "str"],
     [csv |-> "_extra", db |-> "_extra", type |-> "str"] >>
LenientHeaders == {LenientSchema[i].csv : i \in DOMAIN LenientSchema}

\* trim: true: white space around a field is removed.
RECURSIVE TrimLeft(_)
TrimLeft(txt) ==
  IF txt # <<>> /\ Head(txt) = SPACE THEN TrimLeft(Tail(txt)) ELSE txt
RECURSIVE TrimRight(_)
TrimRight(txt) ==
  IF txt # <<>> /\ Last(txt) = SPACE THEN TrimRight(Front(txt)) ELSE txt
Trim(txt) == TrimRight(TrimLeft(txt))

\* The columns fast-csv reads from line + "\n" with delimiter ",".
LenientFields(line) ==
  [i \in DOMAIN SplitAt(line, COMMA) |-> Trim(SplitAt(line, COMMA)[i])]

\* ignoreEmpty: true discards a row that is all white space or delimiters.
IsEmptyRow(row) == \A i \in DOMAIN row : row[i] = <<>>

\* headers: CSV_HEADERS: the object of a row, '' for a header whose column
\* the row does not have.
LenientObject(row) ==
  [h \in LenientHeaders |->
     LET i == CHOOSE j \in DOMAIN LenientSchema : LenientSchema[j].csv = h
     IN IF i <= Len(row) THEN row[i] ELSE <<>>]

\* The events parseString emits for line + "\n": nothing but "end" for a
\* discarded row, "error" for a row with more columns than headers (thrown
\* when strictColumnHandling is false), otherwise "data" and then "end".
LenientEvents(line) ==
  LET row == LenientFields(line) IN
  IF IsEmptyRow(row) THEN <<"end">>
  ELSE IF Len(row) > Len(LenientSchema) THEN <<"error">>
  ELSE <<"data", "end">>

\* parseCsvRow of the lenient agent: reject on "error"; on "data" keep the
\* row; on "end" resolve with the row kept, or reject if there is none.
LenientParseCsvRow(line) ==
  LET ev == LenientEvents(line) IN
  IF Head(ev) = "error" THEN [settled |-> "reject", row |-> <<>>]
  ELSE IF Last(ev) # "end" THEN [settled |-> "pending", row |-> <<>>]
  ELSE IF Head(ev) = "data"
  THEN [settled |-> "resolve", row |-> LenientObject(LenientFields(line))]
  ELSE [settled |-> "reject", row |-> <<>>]

\* delete parsed._extra
DeleteExtra(row) == [h \in DOMAIN row \ {"_extra"} |-> row[h]]

\* mapRow of the lenient agent: the loop over its HEADER_MAPPING.
RECURSIVE LenientMapEntries(_, _, _)
LenientMapEntries(i, row, mapped) ==
  IF i > Len(LenientSchema) THEN mapped
  ELSE LenientMapEntries(i + 1, row,
         Put(mapped, LenientSchema[i].db,
             ParseValue(Get(row, LenientSchema[i].csv), LenientSchema[i].type)))

\* The body of the line loop of the lenient readFile for one line: the
\* record pushed to the batch, if parseCsvRow resolved.
LenientLine(line, uuid) ==
  LET parsed == LenientParseCsvRow(line) IN
  [settled |-> parsed.settled,
   pushed |-> parsed.settled = "resolve",
   rec |-> IF parsed.settled = "resolve"
           THEN Put(LenientMapEntries(1, DeleteExtra(parsed.row), <<>>),
                    "_uuid", Str(uuid))
           ELSE <<>>]

\* ------------------------------------------------------------ the state
VARIABLES
  chunkSize,        \* CONFIG.chunkSize, fixed when the process is configured
  now,              \* the clock (environment)
  exists,           \* the tailed files the feed has created
  content,          \* content[f]: the bytes of file f
  store,            \* store[f]: the offset record of file f, or NoRecord
  boot,             \* position of the start-up code (the final async block)
  timer,            \* instant the pending setTimeout of the daily switch is due
  sw,               \* the switchToNewFile call in progress, if any
  handle,           \* let handle
  offset,           \* let offset
  currentFilePath,  \* let currentFilePath
  partialLine,      \* let partialLine
  batch,            \* let batch
  isProcessing,     \* let isProcessing
  pass,             \* locals of the readFile call in progress
  running,          \* number of setInterval callbacks started and not finished
  handed,           \* history: the lines passed to parseCsvRow, in order
  crashes,          \* history: number of process kills so far
  resumeRec,        \* history: the offset record the last start-up found
  opened,           \* history: what the last completed openCsvFile stored
                    \* in offset and what the file's offset record held
                    \* then; fresh until a later pass opens that file
  raced,            \* history: a switchToNewFile call and a read pass have
                    \* been in progress at the same time in this process
  sent,             \* history: the producer.send calls settled, in order,
                    \* each with its messages and whether it succeeded
  truncs,           \* history: number of times a file was truncated
  partialFrom,      \* history: the files whose bytes partialLine holds
  leaked,           \* file handles opened by readFile calls that returned
                    \* without closing them, counted up to MaxLeaks
  csv,              \* readline agent: the bytes of the file at FILE_PATH
  offsetFile,       \* readline agent: the offset in OFFSET_FILE, or NoRecord
  lastProcessedSize,\* readline agent: let lastProcessedSize
  rlBatch,          \* readline agent: let batch
  calls,            \* readline agent: the processNewData calls in progress
  rlIssued,         \* readline agent, history: how many records of batch
                    \* have been passed to an insert call (0 once batch = [])
  rlMapped,         \* readline agent, history: the lines mapped so far, each
                    \* by the position of its first byte and whether a
                    \* terminator followed it in the stream, and the
                    \* positions of those mapped more than once
  i2,               \* single-file agent (index2.js): its start-up block, the
                    \* bytes of the file at CONFIG.csvFilePath, let offset
  fn                \* a call of a pure function: its arguments and its result

envVars == <<chunkSize, now, exists, content, store>>
procVars == <<boot, timer, sw, handle, offset, currentFilePath, partialLine,
              batch, isProcessing, pass, running>>
vars == <<chunkSize, now, exists, content, store, boot, timer, sw, handle, offset,
          currentFilePath, partialLine, batch, isProcessing, pass, running,
          handed, crashes, resumeRec, opened, raced, sent, truncs, partialFrom, leaked,
          csv, offsetFile, lastProcessedSize, rlBatch, calls, rlIssued, rlMapped, i2, fn>>
rlVars == <<csv, offsetFile, lastProcessedSize, rlBatch, calls, rlIssued, rlMapped>>
histVars == <<handed, crashes, resumeRec, opened, raced, sent, truncs>>

NoTimer == 0 - 1
NoOpen == [fresh |-> FALSE, assigned |-> 0, stored |-> 0]
IdleCall == [pc |-> "idle", size |-> 0, start |-> 0, lines |-> <<>>,
             firstLine |-> FALSE]
NoSwitch == [pc |-> "none", file |-> NoFile, loaded |-> 0, by |-> "none"]
IdlePass == [pc |-> "idle", path |-> NoFile, size |-> 0, fh |-> NoFile,
             position |-> 0, bytesRead |-> 0, lines |-> <<>>,
             savePath |-> NoFile, saveVal |-> 0, early |-> FALSE]

\* No pure function is being called.
NoCall == [op |-> "idle"]

\* index2.js: let offset = 0, and the first statement of its start-up
\* block (await initKafka()); the file does not hold a byte yet.
I2Start ==
  [boot |-> "connect", csv |-> <<>>, offset |-> 0,
   isProcessing |-> FALSE, pc |-> "idle", size |-> 0,
   pending |-> {}, issued |-> 0, stored |-> NoRecord,
   landed |-> 0, overtaken |-> FALSE, unhandled |-> FALSE]

\* The module-level initialisers (part_002 lines 102-106, 286) and the
\* first statement of the start-up block (await initKafka()).
ProcInit ==
  /\ boot = "connect"
  /\ timer = NoTimer
  /\ sw = NoSwitch
  /\ handle = NoFile
  /\ offset = 0
  /\ currentFilePath = NoFile
  /\ partialLine = <<>>
  /\ batch = <<>>
  /\ isProcessing = FALSE
  /\ pass = IdlePass
  /\ running = 0

Env0 ==
  /\ now = 0
  /\ exists = {}
  /\ content = [f \in Files |-> <<>>]
  /\ store = [f \in Files |-> NoRecord]
  /\ ProcInit
  /\ handed = <<>>
  /\ crashes = 0
  /\ resumeRec = NoRecord
  /\ opened = NoOpen
  /\ raced = FALSE
  /\ sent = <<>>
  /\ truncs = 0
  /\ partialFrom = {}
  /\ leaked = 0
  /\ csv = <<>>
  /\ offsetFile = NoRecord
  /\ lastProcessedSize = LoadOffset(NoRecord)
  /\ rlBatch = <<>>
  /\ calls = [c \in 1..MaxCalls |-> IdleCall]
  /\ rlIssued = 0
  /\ rlMapped = [lines |-> {}, repeated |-> {}]
  /\ i2 = I2Start

\* The agent configured with the largest chunk size explored.
Init == Env0 /\ chunkSize = MaxChunk /\ fn = NoCall

\* The agent configured with any chunk size >= 1.
InitAnyChunk == Env0 /\ chunkSize \in 1..MaxChunk /\ fn = NoCall

\* ------------------------------------------------------ the environment
Today == FileOf(DayOf(now))

\* Time passes. A timer that is due runs its callback long before the
\* clock reaches the next instant (hours later).
Advance ==
  /\ now < MaxNow
  /\ timer = NoTimer \/ now < timer
  /\ now' = now + 1
  /\ UNCHANGED <<leaked, partialFrom, fn, i2, rlVars, chunkSize, exists, content, store, procVars, histVars>>

\* The feed creates the file of the day.
CreateFile ==
  /\ Today \notin exists
  /\ exists' = exists \cup {Today}
  /\ UNCHANGED <<leaked, partialFrom, fn, i2, rlVars, chunkSize, now, content, store, procVars, histVars>>

\* Bytes written by the feed so far.
RECURSIVE SumLen(_)
SumLen(fs) ==
  IF fs = {} THEN 0
  ELSE LET f == CHOOSE x \in fs : TRUE IN Len(content[f]) + SumLen(fs \ {f})
Written == SumLen(Files)

\* The feed appends one byte, out of cs, to the file of the day.
GrowOf(cs) ==
  /\ Today \in exists
  /\ Written < MaxBytes
  /\ \E c \in cs : content' = [content EXCEPT ![Today] = Append(@, c)]
  /\ UNCHANGED <<leaked, partialFrom, fn, i2, rlVars, chunkSize, now, exists, store, procVars, histVars>>

\* The feed appends one byte to the file of the day.
Grow == GrowOf(Chars)

\* The next byte of a feed that writes well-formed rows of empty fields:
\* delimiters until the line has CSV_HEADERS.length columns, then the
\* terminator.
RowByte ==
  IF CountDelims(Last(Split(content[Today]))) + 1 < NumCols THEN DELIM ELSE NL

\* The feed appends the next byte of a well-formed row to the file of the day.
GrowRows == GrowOf({RowByte})

\* The feed truncates today's file (or replaces it by a new, empty one) and
\* goes on writing to it.
Truncate ==
  /\ truncs < MaxTruncs
  /\ Today \in exists
  /\ content[Today] # <<>>
  /\ content' = [content EXCEPT ![Today] = <<>>]
  /\ truncs' = truncs + 1
  /\ UNCHANGED <<leaked, partialFrom, fn, i2, rlVars, chunkSize, now, exists, store, procVars, handed,
                 crashes, resumeRec, opened, raced, sent>>

\* The offset record of today's file is damaged from outside the agent: it
\* becomes unreadable, or its text is replaced by one that holds no offset.
\* Only the record loadOffset is about to read matters to the agent (every
\* other access is a whole-file write by saveOffset), so the damage is
\* placed just before that read.
CorruptRecord ==
  /\ sw.pc = "load"
  /\ store[Today] \notin BadRecords
  /\ \E k \in BadRecords :
       /\ store' = [store EXCEPT ![Today] = k]
  /\ UNCHANGED <<leaked, partialFrom, fn, i2, rlVars, chunkSize, now, exists, content, procVars, histVars>>

\* The process is killed and started again: every in-memory value is lost,
\* files and offset records stay.
Crash ==
  /\ crashes < MaxCrashes
  /\ crashes' = crashes + 1
  /\ boot' = "connect"
  /\ timer' = NoTimer
  /\ sw' = NoSwitch
  /\ handle' = NoFile
  /\ offset' = 0
  /\ currentFilePath' = NoFile
  /\ partialLine' = <<>>
  /\ batch' = <<>>
  /\ isProcessing' = FALSE
  /\ pass' = IdlePass
  /\ running' = 0
  /\ opened' = NoOpen
  /\ raced' = FALSE
  /\ partialFrom' = {}
  /\ leaked' = 0
  /\ UNCHANGED <<fn, i2, rlVars, envVars, handed, resumeRec, sent, truncs>>

\* ------------------------------------------------------------- start-up
\* initKafka: producer.connect() fails; wait one minute.
ConnectFail ==
  /\ boot = "connect"
  /\ boot' = "backoff"
  /\ UNCHANGED <<leaked, partialFrom, fn, i2, rlVars, envVars, timer, sw, handle, offset, currentFilePath,
                 partialLine, batch, isProcessing, pass, running, histVars>>

ConnectRetry ==
  /\ boot = "backoff"
  /\ boot' = "connect"
  /\ UNCHANGED <<leaked, partialFrom, fn, i2, rlVars, envVars, timer, sw, handle, offset, currentFilePath,
                 partialLine, batch, isProcessing, pass, running, histVars>>

\* initKafka returns; the start-up block calls switchToNewFile, which
\* names today's file and calls openCsvFile.
ConnectOk ==
  /\ boot = "connect"
  /\ boot' = "switch"
  /\ sw' = [pc |-> "open", file |-> Today, loaded |-> 0, by |-> "boot"]
  /\ UNCHANGED <<leaked, partialFrom, fn, i2, rlVars, envVars, timer, handle, offset, currentFilePath,
                 partialLine, batch, isProcessing, pass, running, histVars>>

\* scheduleDailyFileSwitch: the next switch hour that is still ahead.
Schedule(t) == IF t % 2 = 1 THEN t + 2 ELSE t + 1

\* The setTimeout callback of scheduleDailyFileSwitch: switchToNewFile.
TimerFire ==
  /\ boot = "up"
  /\ timer # NoTimer
  /\ now >= timer
  /\ timer' = NoTimer
  /\ sw' = [pc |-> "open", file |-> Today, loaded |-> 0, by |-> "timer"]
  /\ raced' = (raced \/ pass.pc # "idle")
  /\ UNCHANGED <<leaked, partialFrom, fn, i2, rlVars, envVars, boot, handle, offset, currentFilePath,
                 partialLine, batch, isProcessing, pass, running, handed,
                 crashes, resumeRec, opened, sent, truncs>>

\* openCsvFile up to the call of loadOffset: close the old handle, open the
\* file, set handle and currentFilePath, issue the read of the offset record.
SwOpenOk ==
  /\ sw.pc = "open"
  /\ sw.file \in exists
  /\ handle' = sw.file
  /\ currentFilePath' = sw.file
  /\ sw' = [sw EXCEPT !.pc = "load"]
  /\ opened' = NoOpen
  /\ UNCHANGED <<leaked, partialFrom, fn, i2, rlVars, envVars, boot, timer, offset, partialLine, batch,
                 isProcessing, pass, running, handed, crashes, resumeRec, raced, sent, truncs>>

\* An openCsvFile that assigns currentFilePath before the open has
\* succeeded (checks C24).
SwOpenFailAfterAssign ==
  /\ sw.pc = "open"
  /\ sw.file \notin exists
  /\ sw' = [sw EXCEPT !.pc = "retry"]
  /\ currentFilePath' = sw.file
  /\ UNCHANGED <<leaked, partialFrom, fn, i2, rlVars, envVars, boot, timer, handle, offset,
                 partialLine, batch, isProcessing, pass, running, histVars>>

\* _open throws: switchToNewFile logs and waits 30 seconds.
SwOpenFail ==
  /\ sw.pc = "open"
  /\ sw.file \notin exists
  /\ sw' = [sw EXCEPT !.pc = "retry"]
  /\ UNCHANGED <<leaked, partialFrom, fn, i2, rlVars, envVars, boot, timer, handle, offset, currentFilePath,
                 partialLine, batch, isProcessing, pass, running, histVars>>

SwRetry ==
  /\ sw.pc = "retry"
  /\ sw' = [sw EXCEPT !.pc = "open"]
  /\ UNCHANGED <<leaked, partialFrom, fn, i2, rlVars, envVars, boot, timer, handle, offset, currentFilePath,
                 partialLine, batch, isProcessing, pass, running, histVars>>

\* loadOffset: the offset record of the file is read. An exception out of
\* loadOffset would leave openCsvFile and land in the catch block of
\* switchToNewFile, which retries in 30 seconds.
SwLoad ==
  /\ sw.pc = "load"
  /\ sw' = IF LoadOffsetCall(store[sw.file]).threw
           THEN [sw EXCEPT !.pc = "retry"]
           ELSE [sw EXCEPT !.pc = "assign",
                           !.loaded = LoadOffset(store[sw.file])]
  /\ resumeRec' = IF sw.by = "boot" THEN store[sw.file] ELSE resumeRec
  /\ UNCHANGED <<leaked, partialFrom, fn, i2, rlVars, envVars, boot, timer, handle, offset, currentFilePath,
                 partialLine, batch, isProcessing, pass, running, handed,
                 crashes, opened, raced, sent, truncs>>

\* openCsvFile after the await of loadOffset: offset and partialLine are
\* set, switchToNewFile returns; its caller schedules the next switch, and
\* the start-up block then starts polling.
SwAssign ==
  /\ sw.pc = "assign"
  /\ offset' = sw.loaded
  /\ partialLine' = <<>>
  /\ sw' = NoSwitch
  /\ timer' = Schedule(now)
  /\ boot' = "up"
  /\ opened' = [fresh |-> TRUE, assigned |-> sw.loaded,
                 stored |-> IF store[sw.file] = NoRecord THEN 0 ELSE store[sw.file]]
  /\ pass' = IF pass.pc = "idle" THEN pass ELSE [pass EXCEPT !.early = TRUE]
  /\ partialFrom' = {}
  /\ UNCHANGED <<leaked, fn, i2, rlVars, envVars, handle, currentFilePath, batch, isProcessing,
                 running, handed, crashes, resumeRec, raced, sent, truncs>>

\* ---------------------------------------------------- the read pass
\* saveOffset(offset): the record path is taken from currentFilePath at
\* the call; the write is awaited.
Finish(p, bt, off) ==
  IF bt = <<>>
  THEN [p EXCEPT !.pc = "save", !.savePath = currentFilePath, !.saveVal = off]
  ELSE [p EXCEPT !.pc = "flush"]

\* while (position < stat.size): issue the next read, or leave the loop.
LoopHead(p, bt, off) ==
  IF p.position < p.size THEN [p EXCEPT !.pc = "read"] ELSE Finish(p, bt, off)

\* for (let line of lines): pass the next line to parseCsvRow, or, after
\* the last line, position += bytesRead; offset = position.
LineLoop(p, bt, off, hd) ==
  IF p.lines # <<>>
  THEN [pass |-> [p EXCEPT !.pc = "parse"], offset |-> off,
        handed |-> Append(hd, Head(p.lines))]
  ELSE LET q == [p EXCEPT !.position = @ + p.bytesRead] IN
       [pass |-> LoopHead(q, bt, q.position), offset |-> q.position, handed |-> hd]

\* A tick that never finds the guard set (checks C7).
BusyNeverSeen == FALSE

\* if (isProcessing) return;
Busy == isProcessing

\* A start-up block that starts polling without awaiting switchToNewFile
\* to its end (checks C22).
PollingBeforeSwitchEnds == boot = "up" \/ sw.pc \in {"load", "assign"}

\* startPolling has been called: the start-up block reaches it after
\* await initKafka() and await switchToNewFile() have both returned.
Polling == boot = "up"

\* A setInterval tick that finds the guard set returns at once.
TickSkip ==
  /\ Polling
  /\ Busy
  /\ UNCHANGED vars

\* A setInterval tick: set the guard, call readFile, which issues the stat.
TickStart ==
  /\ Polling
  /\ ~Busy
  /\ isProcessing' = TRUE
  /\ running' = running + 1
  /\ pass' = [IdlePass EXCEPT !.pc = "stat", !.path = currentFilePath]
  /\ raced' = (raced \/ sw.pc # "none")
  /\ UNCHANGED <<leaked, partialFrom, fn, i2, rlVars, envVars, boot, timer, sw, handle, offset, currentFilePath,
                 partialLine, batch, handed, crashes, resumeRec, opened, sent, truncs>>

\* A callback whose finally block leaves the guard set (checks C21).
PassEndKeepsGuard ==
  /\ pass' = IdlePass
  /\ isProcessing' = isProcessing
  /\ running' = running - 1

\* readFile returns (or throws into startPolling's catch); finally clears
\* the guard.
PassEnd ==
  /\ pass' = IdlePass
  /\ isProcessing' = FALSE
  /\ running' = running - 1

\* A readFile without the comparison of stat.size and offset (checks C32).
PassStatAlwaysOpens ==
  /\ pass.pc = "stat"
  /\ pass' = [pass EXCEPT !.pc = "open", !.size = Len(content[pass.path]),
                          !.path = currentFilePath]
  /\ UNCHANGED <<leaked, partialFrom, fn, i2, rlVars, envVars, boot, timer, sw, handle, offset, currentFilePath,
                 partialLine, batch, isProcessing, running, histVars>>

\* The stat resolves. Same size as offset: return. Otherwise open the file.
PassStat ==
  /\ pass.pc = "stat"
  /\ LET size == Len(content[pass.path]) IN
     IF size = offset
     THEN PassEnd
     ELSE /\ pass' = [pass EXCEPT !.pc = "open", !.size = size, !.path = currentFilePath]
          /\ UNCHANGED <<isProcessing, running>>
  /\ UNCHANGED <<leaked, partialFrom, fn, i2, rlVars, envVars, boot, timer, sw, handle, offset, currentFilePath,
                 partialLine, batch, histVars>>

\* The open resolves: position = offset, then the loop head.
PassOpen ==
  /\ pass.pc = "open"
  /\ pass' = LoopHead([pass EXCEPT !.fh = pass.path, !.position = offset], batch, offset)
  /\ opened' = IF pass.path = currentFilePath /\ ~pass.early THEN NoOpen ELSE opened
  /\ UNCHANGED <<leaked, partialFrom, fn, i2, rlVars, envVars, boot, timer, sw, handle, offset, currentFilePath,
                 partialLine, batch, isProcessing, running, handed, crashes,
                 resumeRec, raced, sent, truncs>>

\* The lines of one chunk with the position after each line's terminator.
\* A chunk parsed without the carried tail (checks C4).
ChunkDataWithoutTail(partial, bytes) == bytes

\* const data = partialLine + buffer.slice(0, bytesRead).toString();
ChunkData(partial, bytes) == partial \o bytes

\* data.split("\n") without its last piece: the lines of one chunk, each
\* with the file read, the position after its terminator and the process
\* life (number of kills before it) in which it was read.
ChunkLines(fh, position, partial, bytes) ==
  LET pieces == Split(ChunkData(partial, bytes))
      ends == NLIndexes(bytes, position)
  IN [k \in 1..(Len(pieces) - 1) |->
        [file |-> fh, text |-> pieces[k], end |-> ends[k], life |-> crashes]]

\* The files whose bytes the carried tail holds after a chunk of file fh
\* has been appended to a tail of the files from and split: the tail that
\* follows the chunk's last terminator is of fh alone; a chunk without a
\* terminator adds fh to the files of the tail.
TailFiles(from, fh, bytes) ==
  IF \E i \in DOMAIN bytes : bytes[i] = NL
  THEN (IF Last(bytes) = NL THEN {} ELSE {fh})
  ELSE from \cup {fh}

\* A read of a whole chunk whatever the size the stat observed (checks C33).
PassReadWholeChunk ==
  /\ pass.pc = "read"
  /\ LET readSize == chunkSize
         upto == Min(pass.position + readSize, Len(content[pass.fh]))
         bytes == SubSeq(content[pass.fh], pass.position + 1, upto)
     IN IF bytes = <<>>
        THEN /\ pass' = Finish(pass, batch, offset)
             /\ UNCHANGED <<partialLine, offset, handed, partialFrom>>
        ELSE LET p == [pass EXCEPT !.bytesRead = Len(bytes),
                          !.lines = ChunkLines(pass.fh, pass.position, partialLine, bytes)]
                 r == LineLoop(p, batch, offset, handed)
             IN /\ partialLine' = Last(Split(ChunkData(partialLine, bytes)))
                /\ partialFrom' = TailFiles(partialFrom, pass.fh, bytes)
                /\ pass' = r.pass
                /\ offset' = r.offset
                /\ handed' = r.handed
  /\ UNCHANGED <<leaked, fn, i2, rlVars, envVars, boot, timer, sw, handle, currentFilePath, batch,
                 isProcessing, running, crashes, resumeRec, opened, raced, sent, truncs>>

\* The read resolves: split partialLine + chunk, keep the last piece.
PassRead ==
  /\ pass.pc = "read"
  /\ LET readSize == Min(chunkSize, pass.size - pass.position)
         upto == Min(pass.position + readSize, Len(content[pass.fh]))
         bytes == SubSeq(content[pass.fh], pass.position + 1, upto)
     IN IF bytes = <<>>
        THEN /\ pass' = Finish(pass, batch, offset)
             /\ UNCHANGED <<partialLine, offset, handed, partialFrom>>
        ELSE LET p == [pass EXCEPT !.bytesRead = Len(bytes),
                          !.lines = ChunkLines(pass.fh, pass.position, partialLine, bytes)]
                 r == LineLoop(p, batch, offset, handed)
             IN /\ partialLine' = Last(Split(ChunkData(partialLine, bytes)))
                /\ partialFrom' = TailFiles(partialFrom, pass.fh, bytes)
                /\ pass' = r.pass
                /\ offset' = r.offset
                /\ handed' = r.handed
  /\ UNCHANGED <<leaked, fn, i2, rlVars, envVars, boot, timer, sw, handle, currentFilePath, batch,
                 isProcessing, running, crashes, resumeRec, opened, raced, sent, truncs>>

\* A batch that is never found full (checks C12).
FullNever(bt) == FALSE

\* if (batch.length >= CONFIG.batchSize)
Full(bt) == Len(bt) >= BatchSize

\* parseCsvRow settles for the line at the head of the chunk's lines.
PassParse ==
  /\ pass.pc = "parse"
  /\ LET line == Head(pass.lines)
         p == [pass EXCEPT !.lines = Tail(@)]
         settled == ParseCsvRow(line.text)
     IN /\ settled # "pending"
        /\ IF settled = "resolve"
           THEN LET bt == Append(batch, line) IN
                IF Full(bt)
                THEN /\ batch' = bt
                     /\ pass' = [p EXCEPT !.pc = "send"]
                     /\ UNCHANGED <<offset, handed>>
                ELSE LET r == LineLoop(p, bt, offset, handed) IN
                     /\ batch' = bt
                     /\ pass' = r.pass
                     /\ offset' = r.offset
                     /\ handed' = r.handed
           ELSE LET r == LineLoop(p, batch, offset, handed) IN
                /\ batch' = batch
                /\ pass' = r.pass
                /\ offset' = r.offset
                /\ handed' = r.handed
  /\ UNCHANGED <<leaked, partialFrom, fn, i2, rlVars, envVars, boot, timer, sw, handle, currentFilePath,
                 partialLine, isProcessing, running, crashes, resumeRec, opened, raced, sent, truncs>>

\* The producer.send call of publishBatch settles: its messages are the
\* records of the batch; resolved (ok) or rejected, caught and logged.
Settled(ok) == Append(sent, [msgs |-> batch, ok |-> ok, life |-> crashes])

\* Rejected sends so far.
Failed == {i \in DOMAIN sent : ~sent[i].ok}

\* A publishBatch that keeps the batch after the send (checks C14).
AfterSendKeepsBatch(bt) == bt

\* publishBatch after the send has settled either way: batch = [].
AfterSend(bt) == <<>>

\* publishBatch inside the line loop: producer.send settles, batch = [],
\* and the line loop goes on.
PublishInLoop(ok) ==
  /\ pass.pc = "send"
  /\ LET r == LineLoop(pass, AfterSend(batch), offset, handed) IN
     /\ batch' = AfterSend(batch)
     /\ pass' = r.pass
     /\ offset' = r.offset
     /\ handed' = r.handed
  /\ sent' = Settled(ok)
  /\ UNCHANGED <<leaked, partialFrom, fn, i2, rlVars, envVars, boot, timer, sw, handle, currentFilePath,
                 partialLine, isProcessing, running, crashes, resumeRec, opened, raced, truncs>>

\* publishBatch after the loop, then the call of saveOffset.
PublishAtEnd(ok) ==
  /\ pass.pc = "flush"
  /\ batch' = AfterSend(batch)
  /\ pass' = Finish(pass, AfterSend(batch), offset)
  /\ sent' = Settled(ok)
  /\ UNCHANGED <<leaked, partialFrom, fn, i2, rlVars, envVars, boot, timer, sw, handle, offset, currentFilePath,
                 partialLine, isProcessing, running, handed, crashes, resumeRec,
                 opened, raced, truncs>>

\* The send succeeds.
PassSend == PublishInLoop(TRUE)
PassFlush == PublishAtEnd(TRUE)

\* The send fails (broker unavailable): publishBatch catches and logs.
PassSendFail == Cardinality(Failed) < MaxFails /\ PublishInLoop(FALSE)
PassFlushFail == Cardinality(Failed) < MaxFails /\ PublishAtEnd(FALSE)

\* writeFile of the offset record resolves; fileHandle.close() is awaited.
PassSave ==
  /\ pass.pc = "save"
  /\ store' = [store EXCEPT ![pass.savePath] = pass.saveVal]
  /\ pass' = [pass EXCEPT !.pc = "close"]
  /\ UNCHANGED <<leaked, partialFrom, fn, i2, rlVars, chunkSize, now, exists, content, boot, timer, sw, handle, offset,
                 currentFilePath, partialLine, batch, isProcessing, running,
                 histVars>>

\* The close resolves and readFile returns.
PassClose ==
  /\ pass.pc = "close"
  /\ PassEnd
  /\ UNCHANGED <<leaked, partialFrom, fn, i2, rlVars, envVars, boot, timer, sw, handle, offset, currentFilePath,
                 partialLine, batch, histVars>>

\* The handles left open after a readFile call ends in an exception: the
\* catch block only logs, so the handle of a pass whose read or offset
\* write rejected stays open; a rejected stat or open has opened none.
LeakedAfter(pc) ==
  IF pc \in {"read", "save"} THEN Min(leaked + 1, MaxLeaks) ELSE leaked

\* A catch block that writes the in-memory offset to the offset record
\* (checks C31).
PassIOErrorSavesOffset ==
  /\ pass.pc \in {"stat", "open", "read", "save", "close"}
  /\ PassEnd
  /\ store' = [store EXCEPT ![currentFilePath] = offset]
  /\ leaked' = LeakedAfter(pass.pc)
  /\ UNCHANGED <<partialFrom, fn, i2, rlVars, chunkSize, now, exists, content, boot, timer, sw,
                 handle, offset, currentFilePath, partialLine, batch, histVars>>

\* An awaited file operation of readFile rejects: the stat (thrown into
\* startPolling's catch), or the open, a read, the offset write or the
\* close (logged by readFile's catch). Either way the callback ends, and
\* fileHandle.close(), the last statement of the try block, is not reached.
PassIOError ==
  /\ pass.pc \in {"stat", "open", "read", "save", "close"}
  /\ PassEnd
  /\ leaked' = LeakedAfter(pass.pc)
  /\ UNCHANGED <<partialFrom, fn, i2, rlVars, envVars, boot, timer, sw, handle, offset, currentFilePath,
                 partialLine, batch, histVars>>

\* ------------------------------------------- the readline-based agent
\* One file at FILE_PATH, read from lastProcessedSize to its end through a
\* read stream and readline at every tick of setInterval.

\* The feed appends one byte to the file at FILE_PATH.
RLGrow ==
  /\ Len(csv) < MaxCsv
  /\ \E ch \in Chars : csv' = Append(csv, ch)
  /\ UNCHANGED <<leaked, partialFrom, fn, i2, envVars, procVars, histVars, offsetFile, lastProcessedSize,
                 rlBatch, calls, rlIssued, rlMapped>>

\* The lines readline emits for the bytes s: the terminated lines, and the
\* last unterminated one if it is not empty.
RLLines(s) ==
  IF Last(Split(s)) = <<>> THEN Front(Split(s)) ELSE Split(s)

\* The lines of RLLines(s) for the bytes s that follow position base of
\* the file: each with the position of its first byte and whether a
\* terminator followed it.
RECURSIVE Located(_, _, _)
Located(pieces, at, k) ==
  IF k > Len(pieces) THEN <<>>
  ELSE IF k = Len(pieces)
  THEN (IF pieces[k] = <<>> THEN <<>>
        ELSE <<[text |-> pieces[k], start |-> at, complete |-> FALSE]>>)
  ELSE <<[text |-> pieces[k], start |-> at, complete |-> TRUE]>>
       \o Located(pieces, at + Len(pieces[k]) + 1, k + 1)
RLLocatedLines(s, base) == Located(Split(s), base + 1, 1)

\* parseCsvRow of the readline agent: split on the delimiter, throw on a
\* column count other than that of CSV_HEADERS.
RLParseCsvRow(line) ==
  IF CountDelims(line) + 1 = NumCols THEN "resolve" ELSE "reject"

\* The body of for await (const line of rl), run until insertBatch awaits
\* the send of a full batch or the lines are used up.
RECURSIVE RLLoop(_, _, _)
RLLoop(ls, first, bt) ==
  IF ls = <<>>
  THEN [pc |-> "end", lines |-> <<>>, firstLine |-> first, batch |-> bt]
  ELSE IF first
  THEN RLLoop(Tail(ls), FALSE, bt)
  ELSE IF RLParseCsvRow(Head(ls)) = "reject"
  THEN RLLoop(Tail(ls), first, bt)
  ELSE IF Len(Append(bt, Head(ls))) >= BatchSize
  THEN [pc |-> "send", lines |-> Tail(ls), firstLine |-> first,
        batch |-> Append(bt, Head(ls))]
  ELSE RLLoop(Tail(ls), first, Append(bt, Head(ls)))

\* processNewData from the loop on: the loop, which stops where insertBatch
\* is called on a full batch and awaits the insert; once the lines are used
\* up lastProcessedSize = stats.size and saveOffset, whose writeFileSync
\* writes the record at the call; processNewData then awaits saveOffset.
RLContinue(c, ls, first, bt, issued) ==
  LET r == RLLoop(ls, first, bt) IN
  /\ rlBatch' = r.batch
  /\ IF r.pc = "send"
     THEN /\ calls' = [calls EXCEPT ![c] = [@ EXCEPT !.pc = "send",
                          !.lines = r.lines, !.firstLine = r.firstLine]]
          /\ rlIssued' = Len(r.batch)
          /\ UNCHANGED <<lastProcessedSize, offsetFile>>
     ELSE /\ lastProcessedSize' = calls[c].size
          /\ offsetFile' = calls[c].size
          /\ rlIssued' = issued
          /\ calls' = [calls EXCEPT ![c] = [@ EXCEPT !.pc = "saved", !.lines = <<>>,
                                                      !.firstLine = r.firstLine]]

\* await saveOffset(...) resumes and insertBatch is called: it returns at
\* once on an empty batch (processNewData returns), otherwise it passes the
\* batch to the insert and awaits it.
RLInsert ==
  \E c \in 1..MaxCalls :
    /\ calls[c].pc = "saved"
    /\ IF rlBatch = <<>>
       THEN /\ calls' = [calls EXCEPT ![c] = IdleCall]
            /\ UNCHANGED rlIssued
       ELSE /\ calls' = [calls EXCEPT ![c] = [@ EXCEPT !.pc = "flush"]]
            /\ rlIssued' = Len(rlBatch)
    /\ UNCHANGED <<leaked, partialFrom, fn, i2, envVars, procVars, histVars, csv, offsetFile,
                   lastProcessedSize, rlBatch, rlMapped>>

\* The lines of a stream that the line loop maps: all but the one skipped
\* as the header row and those parseCsvRow rejects.
RLMappedOf(s, base, first) ==
  LET ls == RLLocatedLines(s, base)
      rest == IF first /\ ls # <<>> THEN Tail(ls) ELSE ls
      ok == SelectSeq(rest, LAMBDA l : RLParseCsvRow(l.text) = "resolve")
  IN {[start |-> ok[i].start, complete |-> ok[i].complete] : i \in DOMAIN ok}

\* The lines mapped so far once the lines new are mapped as well.
MappedWith(new) ==
  [lines |-> rlMapped.lines \cup new,
   repeated |-> rlMapped.repeated \cup
                  {l.start : l \in {x \in new :
                                      \E y \in rlMapped.lines : y.start = x.start}}]

\* The processNewData calls in progress.
RLInFlight == {c \in 1..MaxCalls : calls[c].pc # "idle"}

\* A setInterval tick that finds the file size unchanged: processNewData
\* returns after statSync.
RLTickSame ==
  /\ Len(csv) = lastProcessedSize
  /\ UNCHANGED vars

\* A setInterval tick: processNewData is called, whatever calls are in
\* progress; statSync, createReadStream from lastProcessedSize.
RLTick ==
  /\ Len(csv) # lastProcessedSize
  /\ \E c \in 1..MaxCalls :
       /\ calls[c].pc = "idle"
       /\ \A d \in 1..(c - 1) : calls[d].pc # "idle"
       /\ calls' = [calls EXCEPT ![c] =
                      [pc |-> "stream", size |-> Len(csv),
                       start |-> lastProcessedSize, lines |-> <<>>,
                       firstLine |-> (lastProcessedSize = 0)]]
  /\ UNCHANGED <<leaked, partialFrom, fn, i2, envVars, procVars, histVars, csv, offsetFile,
                 lastProcessedSize, rlBatch, rlIssued, rlMapped>>

\* The stream delivers the bytes from start to the end the file has now;
\* the loop runs on the lines readline makes of them.
RLStream ==
  \E c \in 1..MaxCalls :
    /\ calls[c].pc = "stream"
    /\ RLContinue(c, RLLines(SubSeq(csv, calls[c].start + 1, Len(csv))),
                  calls[c].firstLine, rlBatch, rlIssued)
    /\ rlMapped' = MappedWith(RLMappedOf(SubSeq(csv, calls[c].start + 1, Len(csv)),
                                         calls[c].start, calls[c].firstLine))
    /\ UNCHANGED <<leaked, partialFrom, fn, i2, envVars, procVars, histVars, csv>>

\* insertBatch inside the loop: producer.send settles, batch = [].
RLSend ==
  \E c \in 1..MaxCalls :
    /\ calls[c].pc = "send"
    /\ RLContinue(c, calls[c].lines, calls[c].firstLine, <<>>, 0)
    /\ UNCHANGED <<leaked, partialFrom, fn, i2, envVars, procVars, histVars, csv, rlMapped>>

\* insertBatch after the loop: producer.send settles, batch = [], and
\* processNewData returns.
RLFlush ==
  \E c \in 1..MaxCalls :
    /\ calls[c].pc = "flush"
    /\ rlBatch' = <<>>
    /\ rlIssued' = 0
    /\ calls' = [calls EXCEPT ![c] = IdleCall]
    /\ UNCHANGED <<leaked, partialFrom, fn, i2, envVars, procVars, histVars, csv, offsetFile,
                   lastProcessedSize, rlMapped>>

NextRL == RLGrow \/ RLTickSame \/ RLTick \/ RLStream \/ RLSend \/ RLInsert \/ RLFlush

SpecRL == Init /\ [][NextRL]_vars

\* ------------------------------------- the single-file agent (index2.js)
\* One file at CONFIG.csvFilePath and one offset record; the start-up block
\* is await initKafka(); offset = await loadOffset(); startPolling().

\* The feed appends one byte to the file at CONFIG.csvFilePath.
I2Grow ==
  /\ Len(i2.csv) < MaxCsv
  /\ \E ch \in Chars : i2' = [i2 EXCEPT !.csv = Append(@, ch)]
  /\ UNCHANGED <<leaked, partialFrom, fn, rlVars, envVars, procVars, histVars>>

\* initKafka: producer.connect() rejects. There is no loop and no catch:
\* the rejection leaves initKafka and the start-up block, loadOffset and
\* startPolling are never reached, and nothing else is scheduled.
I2ConnectFail ==
  /\ i2.boot = "connect"
  /\ i2' = [i2 EXCEPT !.boot = "dead"]
  /\ UNCHANGED <<leaked, partialFrom, fn, rlVars, envVars, procVars, histVars>>

\* initKafka: producer.connect() resolves; loadOffset is called.
I2ConnectOk ==
  /\ i2.boot = "connect"
  /\ i2' = [i2 EXCEPT !.boot = "load"]
  /\ UNCHANGED <<leaked, partialFrom, fn, rlVars, envVars, procVars, histVars>>

\* offset = await loadOffset(); startPolling(). No offset record has been
\* written yet.
I2LoadOffset ==
  /\ i2.boot = "load"
  /\ i2' = [i2 EXCEPT !.boot = "up", !.offset = LoadOffset(NoRecord)]
  /\ UNCHANGED <<leaked, partialFrom, fn, rlVars, envVars, procVars, histVars>>

\* startPolling: the interval callback finds the guard free, takes it and
\* calls readFile. (With the guard taken the callback returns at once.)
I2Tick ==
  /\ i2.boot = "up" /\ ~i2.isProcessing
  /\ i2' = [i2 EXCEPT !.isProcessing = TRUE, !.pc = "stat"]
  /\ UNCHANGED <<leaked, partialFrom, fn, rlVars, envVars, procVars, histVars>>

\* readFile: the stat resolves. With the size equal to the offset readFile
\* returns and the callback's finally releases the guard.
I2Stat ==
  /\ i2.boot = "up" /\ i2.pc = "stat"
  /\ i2' = IF Len(i2.csv) = i2.offset
           THEN [i2 EXCEPT !.pc = "idle", !.isProcessing = FALSE]
           ELSE [i2 EXCEPT !.pc = "read", !.size = Len(i2.csv)]
  /\ UNCHANGED <<leaked, partialFrom, fn, rlVars, envVars, procVars, histVars>>

\* readFile: the file is opened and the chunk loop runs until position
\* reaches stat.size; each chunk ends with offset = position. (The lines
\* and the batch of this agent are not part of this model.)
I2Read ==
  /\ i2.boot = "up" /\ i2.pc = "read"
  /\ i2' = [i2 EXCEPT !.pc = "publish", !.offset = i2.size]
  /\ UNCHANGED <<leaked, partialFrom, fn, rlVars, envVars, procVars, histVars>>

\* readFile: await publishBatch() resolves, then saveOffset(offset) is
\* called and its promise dropped: the write is under way and readFile goes
\* on to its finally block.
I2Publish ==
  /\ i2.boot = "up" /\ i2.pc = "publish"
  /\ i2' = [i2 EXCEPT !.pc = "close", !.issued = @ + 1,
                      !.pending = @ \cup {[seq |-> i2.issued + 1,
                                           value |-> i2.offset]}]
  /\ UNCHANGED <<leaked, partialFrom, fn, rlVars, envVars, procVars, histVars>>

\* readFile: the stat rejects (readFile rejects, the callback's catch logs
\* it and its finally releases the guard), or the open, a read or
\* publishBatch throws (readFile's catch logs it, the finally block
\* follows). No offset write is started.
I2PassError ==
  /\ i2.boot = "up" /\ i2.pc \in {"stat", "read", "publish"}
  /\ i2' = IF i2.pc = "stat"
           THEN [i2 EXCEPT !.pc = "idle", !.isProcessing = FALSE]
           ELSE [i2 EXCEPT !.pc = "close"]
  /\ UNCHANGED <<leaked, partialFrom, fn, rlVars, envVars, procVars, histVars>>

\* readFile's finally closes the handle, readFile returns and the
\* callback's finally releases the guard.
I2Close ==
  /\ i2.boot = "up" /\ i2.pc = "close"
  /\ i2' = [i2 EXCEPT !.pc = "idle", !.isProcessing = FALSE]
  /\ UNCHANGED <<leaked, partialFrom, fn, rlVars, envVars, procVars, histVars>>

\* saveOffset: one of the writeFile calls under way completes and the
\* offset record holds its value. Writes under way complete in any order.
I2WriteDone ==
  /\ i2.boot = "up"
  /\ \E w \in i2.pending :
       i2' = [i2 EXCEPT !.pending = @ \ {w}, !.stored = w.value,
                        !.landed = w.seq,
                        !.overtaken = @ \/ w.seq < i2.landed]
  /\ UNCHANGED <<leaked, partialFrom, fn, rlVars, envVars, procVars, histVars>>

\* saveOffset: one of the writeFile calls under way rejects. Nothing awaits
\* the promise saveOffset returned, so the rejection is unhandled; the
\* runtime either reports it and goes on or ends the process.
I2WriteFail ==
  /\ i2.boot = "up"
  /\ \E w \in i2.pending, b \in {"up", "crashed"} :
       i2' = [i2 EXCEPT !.pending = @ \ {w}, !.unhandled = TRUE, !.boot = b]
  /\ UNCHANGED <<leaked, partialFrom, fn, rlVars, envVars, procVars, histVars>>

NextI2 ==
  \/ I2Grow \/ I2ConnectFail \/ I2ConnectOk \/ I2LoadOffset
  \/ I2Tick \/ I2Stat \/ I2Read \/ I2Publish \/ I2PassError \/ I2Close
  \/ I2WriteDone \/ I2WriteFail

SpecI2 == Init /\ [][NextI2]_vars

\* ------------------------------------------- calls of the pure functions
Types == {"int", "float", "bool", "BigInt", "str"}

\* An integer text far beyond 2^64.
LongInteger ==
  <<"1", "2", "3", "4", "5", "6", "7", "8", "9", "0", "1", "2", "3",
    "4", "5", "6", "7", "8", "9", "0", "1", "2", "3", "4", "5">>

ExampleTexts ==
  { <<"1", ".", "2", "3", "E", "+", "5">>, <<"5", "e", "3">>,
    <<"1", "0", "0">>, <<"0">>, LongInteger,
    <<"t", "r", "u", "e">>, <<"T", "R", "U", "E">>, <<"T", "r", "u", "e">>,
    <<"f", "a", "l", "s", "e">> }

\* The field texts explored.
FieldTexts ==
  UNION {[1..k -> FieldChars] : k \in 0..MaxFieldLen} \cup ExampleTexts \cup {Undefined}

\* parseValue is about to be called with one of the texts and one of the
\* types.
InitParseValue ==
  /\ Env0 /\ chunkSize = MaxChunk
  /\ fn \in {[op |-> "none", value |-> v, type |-> ty, res |-> Null] :
               v \in FieldTexts, ty \in Types}

\* parseValue(value, type) of a chunked agent returns.
CallParseValue ==
  /\ fn.op = "none"
  /\ fn' = [fn EXCEPT !.op = "parseValue", !.res = ParseValue(fn.value, fn.type)]
  /\ UNCHANGED <<leaked, partialFrom, i2, rlVars, envVars, procVars, histVars>>

\* parseValue(value, type) of a readline agent returns.
CallParseValueRL ==
  /\ fn.op = "none"
  /\ fn' = [fn EXCEPT !.op = "parseValueRL", !.res = ParseValueRL(fn.value, fn.type)]
  /\ UNCHANGED <<leaked, partialFrom, i2, rlVars, envVars, procVars, histVars>>

NextParseValue == CallParseValue \/ CallParseValueRL

SpecParseValue == InitParseValue /\ [][NextParseValue]_vars

\* The values randomUUID() returns.
UUIDs == {<<"u", "1">>, <<"u", "2">>}

\* The field values of the rows explored: empty, an integer, a text that
\* is no number, a text that is an exponent letter alone, a number in
\* scientific notation, a decimal fraction, and true.
RowTexts ==
  {<<>>, <<"1">>, <<"a">>, <<"e">>, <<"1", "e", "1">>, <<"1", ".", "5">>, TRUE_TEXT}

\* The rows explored: every subset of the columns, every field value.
Rows == UNION {[D -> RowTexts] : D \in SUBSET CSV_HEADERS}

\* mapRow is about to be called with one of the rows.
InitMapRow ==
  /\ Env0 /\ chunkSize = MaxChunk
  /\ fn \in {[op |-> "none", row |-> r, uuid |-> u,
                res |-> [threw |-> FALSE, rec |-> <<>>]] : r \in Rows, u \in UUIDs}

\* mapRow(row) returns or throws.
CallMapRow ==
  /\ fn.op = "none"
  /\ fn' = [fn EXCEPT !.op = "mapRow", !.res = MapRow(fn.row, fn.uuid)]
  /\ UNCHANGED <<leaked, partialFrom, i2, rlVars, envVars, procVars, histVars>>

NextMapRow == CallMapRow

SpecMapRow == InitMapRow /\ [][NextMapRow]_vars

\* The lines explored.
Lines == UNION {[1..k -> LineChars] : k \in 0..MaxLineLen}

\* The line loop of the lenient agent is about to take one of the lines.
InitLenient ==
  /\ Env0 /\ chunkSize = MaxChunk
  /\ fn \in {[op |-> "none", line |-> l, uuid |-> u,
               res |-> [settled |-> "pending", pushed |-> FALSE, rec |-> <<>>]] :
               l \in Lines, u \in UUIDs}

\* The body of the line loop has run for the line.
CallLenientLine ==
  /\ fn.op = "none"
  /\ fn' = [fn EXCEPT !.op = "lenientLine", !.res = LenientLine(fn.line, fn.uuid)]
  /\ UNCHANGED <<leaked, partialFrom, i2, rlVars, envVars, procVars, histVars>>

NextLenient == CallLenientLine

SpecLenient == InitLenient /\ [][NextLenient]_vars

Next ==
  \/ Advance \/ CreateFile \/ Grow \/ Crash
  \/ ConnectFail \/ ConnectRetry \/ ConnectOk
  \/ TimerFire \/ SwOpenOk \/ SwOpenFail \/ SwRetry \/ SwLoad \/ SwAssign
  \/ TickSkip \/ TickStart
  \/ PassStat \/ PassOpen \/ PassRead \/ PassParse \/ PassSend \/ PassFlush
  \/ PassSave \/ PassClose \/ PassIOError
  \/ PassSendFail \/ PassFlushFail
  \/ Truncate \/ CorruptRecord
  \/ I2Grow \/ I2ConnectFail \/ I2ConnectOk \/ I2LoadOffset
  \/ I2Tick \/ I2Stat \/ I2Read \/ I2Publish \/ I2PassError \/ I2Close
  \/ I2WriteDone \/ I2WriteFail
  \/ CallParseValue \/ CallParseValueRL \/ CallMapRow \/ CallLenientLine

Spec == Init /\ [][Next]_vars

\* The agent on one day: the clock stands still, so the file of the day is
\* the only file and the daily switch never comes due.
NextTail ==
  \/ CreateFile \/ Grow \/ Crash
  \/ ConnectFail \/ ConnectRetry \/ ConnectOk
  \/ SwOpenOk \/ SwOpenFail \/ SwRetry \/ SwLoad \/ SwAssign
  \/ TickSkip \/ TickStart
  \/ PassStat \/ PassOpen \/ PassRead \/ PassParse \/ PassSend \/ PassFlush
  \/ PassSave \/ PassClose \/ PassIOError

SpecTail == InitAnyChunk /\ [][NextTail]_vars

\* The agent on one day with an offset record that can be found damaged at
\* every start; no file operation of a pass fails.
NextLoad ==
  \/ CreateFile \/ Grow \/ Crash \/ CorruptRecord
  \/ ConnectFail \/ ConnectRetry \/ ConnectOk
  \/ SwOpenOk \/ SwOpenFail \/ SwRetry \/ SwLoad \/ SwAssign
  \/ TickSkip \/ TickStart
  \/ PassStat \/ PassOpen \/ PassRead \/ PassParse \/ PassSend \/ PassFlush
  \/ PassSave \/ PassClose

SpecLoad == InitAnyChunk /\ [][NextLoad]_vars

\* One life of the process over several days: the daily switch comes due,
\* the process is never killed and no file operation of a pass fails.
NextSwitch ==
  \/ Advance \/ CreateFile \/ Grow
  \/ ConnectFail \/ ConnectRetry \/ ConnectOk
  \/ TimerFire \/ SwOpenOk \/ SwOpenFail \/ SwRetry \/ SwLoad \/ SwAssign
  \/ TickSkip \/ TickStart
  \/ PassStat \/ PassOpen \/ PassRead \/ PassParse \/ PassSend \/ PassFlush
  \/ PassSave \/ PassClose

SpecSwitch == Init /\ [][NextSwitch]_vars

\* The agent of SpecSwitch under a feed of well-formed rows, with the
\* scheduling the event loop gives a switch: the 30-second timer of a
\* retry fires, and an open of an existing file, the read of the offset
\* record and the continuation after it complete.
NextRetry ==
  \/ Advance \/ CreateFile \/ GrowRows
  \/ ConnectFail \/ ConnectRetry \/ ConnectOk
  \/ TimerFire \/ SwOpenOk \/ SwOpenFail \/ SwRetry \/ SwLoad \/ SwAssign
  \/ TickSkip \/ TickStart
  \/ PassStat \/ PassOpen \/ PassRead \/ PassParse \/ PassSend \/ PassFlush
  \/ PassSave \/ PassClose

SwStep == SwOpenOk \/ SwRetry \/ SwLoad \/ SwAssign
SpecRetry == Init /\ [][NextRetry]_vars /\ WF_vars(SwStep)

\* The agent on one day with an unreliable broker: sends may fail.
NextBus ==
  \/ CreateFile \/ Grow \/ Crash
  \/ ConnectFail \/ ConnectRetry \/ ConnectOk
  \/ SwOpenOk \/ SwOpenFail \/ SwRetry \/ SwLoad \/ SwAssign
  \/ TickSkip \/ TickStart
  \/ PassStat \/ PassOpen \/ PassRead \/ PassParse \/ PassSend \/ PassFlush
  \/ PassSave \/ PassClose \/ PassIOError
  \/ PassSendFail \/ PassFlushFail

SpecBus == InitAnyChunk /\ [][NextBus]_vars

\* The agent on one day, never killed, with a feed that may truncate the
\* file.
NextTrunc ==
  \/ CreateFile \/ Grow \/ Truncate
  \/ ConnectFail \/ ConnectRetry \/ ConnectOk
  \/ SwOpenOk \/ SwOpenFail \/ SwRetry \/ SwLoad \/ SwAssign
  \/ TickSkip \/ TickStart
  \/ PassStat \/ PassOpen \/ PassRead \/ PassParse \/ PassSend \/ PassFlush
  \/ PassSave \/ PassClose \/ PassIOError

SpecTrunc == InitAnyChunk /\ [][NextTrunc]_vars

\* ------------------------------------------------------------ properties
\* Position o of file f is 0 or lies immediately after a terminator.
IsLineStart(f, o) == o = 0 \/ (o \in 1..Len(content[f]) /\ content[f][o] = NL)

\* The bytes of file f from the line start before position e up to, and
\* without, the terminator at position e.
WholeLine(f, e) ==
  LET s == CHOOSE x \in 0..(e - 1) :
             /\ IsLineStart(f, x)
             /\ \A t \in (x + 1)..(e - 1) : content[f][t] # NL
  IN SubSeq(content[f], s + 1, e - 1)

\* Read the whole content at once and split on terminators, without the
\* unterminated rest.
CompleteLines(s) == Front(Split(s))

Texts(h) == [i \in DOMAIN h |-> h[i].text]
OfLife(h, n) == SelectSeq(h, LAMBDA x : x.life = n)
Quiet == boot = "up" /\ pass.pc = "idle" /\ sw.pc = "none"

\* C1: every value readFile passes to saveOffset, and the in-memory offset
\* whenever no pass runs, is 0 or the position immediately after a
\* terminator of the tailed file.
C1_OffsetNeverInsideLine ==
  /\ pass.pc = "save" => IsLineStart(pass.fh, pass.saveVal)
  /\ Quiet => IsLineStart(currentFilePath, offset)

\* C2: across a kill and restart no line is lost: once everything up to
\* the offset has been read, every complete line of the file before the
\* offset has been passed to the parser whole and unmodified, in some life
\* of the process.
C2_NoLineLostByRestart ==
  Quiet =>
    \A e \in 1..Min(offset, Len(content[currentFilePath])) :
      content[currentFilePath][e] = NL =>
        \E i \in DOMAIN handed :
          /\ handed[i].file = currentFilePath
          /\ handed[i].end = e
          /\ handed[i].text = WholeLine(currentFilePath, e)

\* C4: reading a file from offset 0 in chunks of chunkSize, carrying
\* partialLine, passes to the parser exactly the lines of the content
\* split on terminators without the unterminated rest: always a prefix of
\* them, and between chunks exactly the complete lines of the bytes read.
IsPrefix(a, b) == Len(a) <= Len(b) /\ a = SubSeq(b, 1, Len(a))
ResumedAt == IF resumeRec = NoRecord THEN 0 ELSE resumeRec
C5_ResumeIdempotent ==
  LET f == currentFilePath
      before == Texts(OfLife(handed, 0))
      after == Texts(OfLife(handed, 1))
  IN (/\ crashes = 1
      /\ Quiet
      /\ offset = Len(content[f])
      /\ IsLineStart(f, ResumedAt)
      /\ before = CompleteLines(SubSeq(content[f], 1, ResumedAt)))
     => /\ after = CompleteLines(SubSeq(content[f], ResumedAt + 1, Len(content[f])))
        /\ before \o after = CompleteLines(content[f])

\* C5's case: a line mapped and its offset persisted, a restart, and a
\* second line mapped after it.
C5_Witness ==
  /\ crashes = 1
  /\ Quiet
  /\ offset = Len(content[currentFilePath])
  /\ ResumedAt > 0
  /\ IsLineStart(currentFilePath, ResumedAt)
  /\ Len(OfLife(handed, 0)) = 1
  /\ Len(OfLife(handed, 1)) = 1

\* C7: at most one read pass runs at any time, and isProcessing is true
\* exactly while a pass started by startPolling runs.
C7_OnePassAtATime ==
  /\ running <= 1
  /\ isProcessing <=> running = 1
  /\ isProcessing <=> pass.pc # "idle"

\* C7's case: a pass is waiting for a read while ticks keep firing.
C7_Witness == isProcessing /\ pass.pc = "read" /\ ENABLED TickSkip

\* C9: a started pass is never left waiting for ever on parseCsvRow: the
\* promise settles for every line passed to it.
C9_ParseAlwaysSettles ==
  pass.pc = "parse" => ParseCsvRow(Head(pass.lines).text) \in {"resolve", "reject"}

\* C3: the offsets written to the offset record of one file never
\* decrease.
C3_StoredOffsetNeverDecreases ==
  [][\A f \in Files : store[f] # NoRecord => store'[f] >= store[f]]_vars

\* C6: within one life of the process, with no pass ever overlapping a file
\* switch, a line whose first bytes were an unterminated fragment at the
\* end of a pass is passed to the parser exactly once, complete (the
\* fragment followed by the bytes appended up to the terminator), once the
\* passes have read beyond its terminator.
C6_FragmentCompletedOnce ==
  (crashes = 0 /\ ~raced /\ Quiet) =>
    \A e \in 1..Min(offset, Len(content[currentFilePath])) :
      content[currentFilePath][e] = NL =>
        LET at == {i \in DOMAIN handed :
                     handed[i].file = currentFilePath /\ handed[i].end = e}
        IN /\ Cardinality(at) = 1
           /\ \A i \in at : handed[i].text = WholeLine(currentFilePath, e)

\* C10: when openCsvFile(F) completes, the offset it has set is the value
\* stored in F's offset record, and the first pass started after it that
\* opens F starts reading at that offset with an empty partialLine.
C10_OpenLoadsStoredOffset ==
  opened.fresh =>
    /\ opened.assigned = opened.stored
    /\ (pass.pc = "open" /\ ~pass.early /\ pass.path = currentFilePath) =>
         (offset = opened.stored /\ partialLine = <<>>)

\* C8: in the readline-based agent at most one processNewData call is in
\* progress at a time; a tick during a call starts no second call.
C8_OnePassAtATimeReadline == Cardinality(RLInFlight) <= 1

\* C11: a file switch during a read pass does not mix the cursors of the
\* two files: a pass writes the offset record of the file it has read, and
\* a pass assigns the in-memory offset only while the file it reads is the
\* current file.
C11_SwitchKeepsCursorsApart ==
  [][/\ store' # store => pass.savePath = pass.fh
     /\ (offset' # offset /\ sw' = sw /\ crashes' = crashes) =>
          pass.fh = currentFilePath]_vars

\* C12: the batch never holds more than batchSize records; when a push has
\* brought it to batchSize a send of exactly those records is in progress
\* and no record is pushed until the batch has been emptied, so no send
\* carries more than batchSize records or none.
C12_BatchNeverExceedsBatchSize ==
  /\ Len(batch) <= BatchSize
  /\ Len(batch) = BatchSize => pass.pc = "send"
  /\ \A i \in DOMAIN sent : Len(sent[i].msgs) \in 1..BatchSize
C12_Witness ==
  /\ sent # <<>>
  /\ Len(sent[1].msgs) = BatchSize
  /\ batch = <<>>
  /\ pass.pc = "parse"

\* C13: whenever no read pass is running the batch is empty, however the
\* last pass ended.
C13_BatchEmptyBetweenPasses == pass.pc = "idle" => batch = <<>>

\* The records of a sequence of records.
Range(q) == {q[i] : i \in DOMAIN q}

\* The records of the sends that failed.
Dropped == UNION {Range(sent[i].msgs) : i \in Failed}

\* What holds of the dropped records in every state: none is in the batch
\* or in a send after the one that failed, and an offset saved or kept by
\* the process that dropped them lies past their lines.
DroppedStayDropped ==
  /\ \A i \in Failed : \A j \in DOMAIN sent :
        j > i => Range(sent[i].msgs) \cap Range(sent[j].msgs) = {}
  /\ Dropped \cap Range(batch) = {}
  /\ \A m \in Dropped :
        m.life = crashes =>
          /\ pass.pc = "save" => pass.saveVal >= m.end
          /\ pass.pc = "idle" => offset >= m.end

\* C14: a send that fails does not end the pass: the batch is emptied, the
\* pass goes on with the next line, the next read or the saving of the
\* offset; the dropped records are in no later send, and the offset the
\* pass keeps and saves lies past their lines.
C14_FailedSendDropsBatch ==
  [][/\ DroppedStayDropped'
     /\ (sent' # sent /\ ~sent'[Len(sent')].ok) =>
          /\ batch' = <<>>
          /\ isProcessing'
          /\ pass'.pc \in {"parse", "read", "save"}]_vars
C14_Witness ==
  /\ Quiet
  /\ \E m \in Dropped :
        /\ m.life = crashes
        /\ m.file = currentFilePath
        /\ store[currentFilePath] >= m.end
  /\ \E i \in DOMAIN sent : sent[i].ok

\* The line of record m is among the messages of a send that succeeded.
Delivered(m) ==
  \E i \in DOMAIN sent :
    /\ sent[i].ok
    /\ \E k \in DOMAIN sent[i].msgs :
         /\ sent[i].msgs[k].file = m.file
         /\ sent[i].msgs[k].end = m.end

\* C15: every line mapped into a record reaches a send that succeeds: once
\* the process is at rest with an empty batch and the offset record of the
\* file lies past the line, so that no pass of this or a later process
\* reads the line again, the line has been delivered.
C15_AtLeastOnceDelivery ==
  (Quiet /\ batch = <<>>) =>
    \A i \in DOMAIN sent : \A k \in DOMAIN sent[i].msgs :
      LET m == sent[i].msgs[k] IN
      (store[m.file] # NoRecord /\ store[m.file] >= m.end /\ offset >= m.end)
        => Delivered(m)

\* The messages of all sends of process life n, in the order of the sends.
RECURSIVE SentBy(_, _)
SentBy(q, n) ==
  IF q = <<>> THEN <<>>
  ELSE (IF Head(q).life = n THEN Head(q).msgs ELSE <<>>) \o SentBy(Tail(q), n)

\* The records q are in the order of their lines: files in the order of
\* their days, lines of one file in the order of their positions.
InSourceOrder(q) ==
  \A i, j \in DOMAIN q :
    i < j => \/ q[i].file < q[j].file
             \/ q[i].file = q[j].file /\ q[i].end < q[j].end

\* C16: the messages of the sends of one process, concatenated in the
\* order of the sends, are in the order of their lines in the file.
C16_PublishedInSourceOrder ==
  \A n \in 0..MaxCrashes : InSourceOrder(SentBy(sent, n))

\* C17: a pass that finds the file smaller than the offset reads it afresh
\* from offset 0: once the file is open the position the pass reads from,
\* and the offset it goes on to save, lies within the size it found.
C17_TruncatedFileReadAfresh ==
  pass.pc \in {"read", "parse", "send", "flush", "save", "close"} =>
    pass.position <= pass.size

\* Record m is the record of the first line of its file.
OfFirstLine(m) == \A d \in 1..(m.end - 1) : content[m.file][d] # NL

\* The records pushed so far: those of the batch and of the sends.
Pushed == Range(batch) \cup UNION {Range(sent[i].msgs) : i \in DOMAIN sent}

\* C18: the first line of a file, the header row, produces no record: no
\* record in the batch or in a send is the record of a first line.
C18_HeaderProducesNoRecord == \A m \in Pushed : ~OfFirstLine(m)

\* A non-empty line whose number of fields is not that of the schema.
WrongColumnCount(line) == line # <<>> /\ CountDelims(line) + 1 # NumCols

\* C19: under strict column handling a line with a wrong number of fields
\* yields no record, and the pass goes on to the lines after it: while
\* such a line is at the parser, the step that takes the pass to the next
\* line can be taken.
C19_WrongColumnCountRejected ==
  /\ \A m \in Pushed : ~WrongColumnCount(m.text)
  /\ (pass.pc = "parse" /\ WrongColumnCount(Head(pass.lines).text)) =>
       ENABLED PassParse

\* C20: loadOffset never fails. When a file is opened, the offset the agent
\* resumes from is the integer its offset record holds, and 0 when the
\* record is absent, unreadable, not valid JSON or without an offset field;
\* no exception of loadOffset reaches openCsvFile, so a switch that has
\* opened its file never falls back to the retry of switchToNewFile.
StoredInteger(rec) == IF rec >= 0 THEN rec ELSE 0
C20_LoadOffsetNeverFails ==
  /\ sw.pc = "assign" => sw.loaded = StoredInteger(resumeRec)
  /\ sw.pc = "retry" => currentFilePath # sw.file
C20_Witness ==
  /\ sw.pc = "assign"
  /\ resumeRec = NotJson
  /\ sw.loaded = 0
  /\ crashes > 0

\* C21: when the offset write at the end of a pass fails, the failure stays
\* inside the pass: the process keeps running, the in-memory offset keeps
\* the advanced value that was to be written, the offset record is left as
\* it was, the isProcessing guard is released, and a pass started afterwards
\* reads from the in-memory offset.
SaveFails == pass.pc = "save" /\ pass'.pc = "idle" /\ crashes' = crashes
C21_OffsetWriteFailureIsSurvived ==
  [][/\ SaveFails =>
          /\ offset' = offset
          /\ offset' = pass.saveVal
          /\ store' = store
          /\ ~isProcessing'
          /\ boot' = "up"
     /\ (pass.pc = "open" /\ pass'.pc = "read") => pass'.position = offset]_vars

\* C21's case: every pass so far read its whole range in one chunk, so the
\* offset can only have advanced in passes that reached the offset write;
\* no write ever succeeded, and a later pass reads from the advanced offset.
C21_Witness ==
  /\ crashes = 0
  /\ currentFilePath # NoFile
  /\ chunkSize >= Len(content[currentFilePath])
  /\ store[currentFilePath] = NoRecord
  /\ offset > 0
  /\ pass.pc = "read"
  /\ pass.position = offset

\* C22: no read pass, publish or offset write happens before the bus
\* connection has succeeded and the initial file has been opened: every step
\* of a pass, every settled send and every write of an offset record is
\* taken by a process whose start-up block has returned from initKafka and
\* from switchToNewFile, with the file open and current; until then no pass
\* is in progress and the guard is clear.
C22_NothingBeforeStartupCompletes ==
  [][/\ (pass' # pass \/ sent' # sent \/ store' # store \/ isProcessing' # isProcessing) =>
          /\ boot = "up"
          /\ currentFilePath \in exists
          /\ handle = currentFilePath
     /\ boot' # "up" => (pass'.pc = "idle" /\ ~isProcessing' /\ batch' = <<>>)]_vars

\* C22's case: the process is up and its first pass has read its first
\* chunk, before any send and any offset write.
C22_Witness ==
  /\ boot = "up"
  /\ crashes = 0
  /\ pass.pc = "parse"
  /\ Len(handed) = 1
  /\ sent = <<>>
  /\ store = [f \in Files |-> NoRecord]

\* C23: the bus connection is retried for ever: no agent's initKafka gives
\* up or lets a connect failure escape, so the start-up of an agent is never
\* ended by a failed connect.
C23_ConnectFailureNeverEscapes == i2.boot # "dead"

\* C24: opening the target file is retried for ever. A failed open changes
\* nothing but the switch itself, and as long as the open keeps failing
\* currentFilePath stays the previously tailed file, while offset and
\* partialLine change only by the passes over that file; once the file
\* exists the switch completes with that file as the current file.
OpenFailing == sw.pc \in {"open", "retry"}
C24_OpenRetriedUntilFileExists ==
  /\ [][(OpenFailing /\ OpenFailing') =>
          /\ currentFilePath' = currentFilePath
          /\ pass' = pass => (offset' = offset /\ partialLine' = partialLine)]_vars
  /\ \A f \in Files :
       (sw.pc # "none" /\ sw.file = f /\ f \in exists)
         ~> (sw.pc = "none" /\ currentFilePath = f)

\* C24's case: the switch of the second day has found its file missing and
\* waits to retry, while a pass goes on reading the file of the first day
\* from an offset that earlier passes advanced and saved.
C24_Witness ==
  /\ sw.pc = "retry"
  /\ sw.file = FileOf(2)
  /\ currentFilePath = FileOf(1)
  /\ store[FileOf(1)] > 0
  /\ pass.pc = "read"
  /\ pass.position = store[FileOf(1)]

\* C25: for every row mapRow returns a record whose keys are exactly the
\* output field names of HEADER_MAPPING and _uuid; a column missing from
\* the row is null under its output field name; mapRow never throws.
OutputFields == {HEADER_MAPPING[h] : h \in CSV_HEADERS}
NonNumeric(value) ==
  value # Undefined /\ value # <<>> /\ \A i \in DOMAIN value : value[i] \notin Digits
C26_UncoercibleFieldIsNull ==
  (fn.op = "parseValue" /\ fn.type \in {"int", "float", "BigInt"} /\ NonNumeric(fn.value))
    => fn.res = Null

\* C27: coercing to the arbitrary-precision type yields the exact decimal
\* string: "1.23E+5" gives "123000", "5e3" gives "5000", "100" gives "100",
\* "0" gives "0", and a plain integer text of any length comes back digit
\* for digit (the digits that follow its leading zeros, if it has any).
PlainInteger(value) ==
  value # Undefined /\ value # <<>> /\ \A i \in DOMAIN value : value[i] \in Digits
SameDigits(r, value) ==
  \E n \in 0..(Len(value) - 1) :
    /\ r = Drop(value, n)
    /\ AllZero(SubSeq(value, 1, n))
    /\ Len(r) = 1 \/ Head(r) # "0"
C27_BigIntTextIsExact ==
  (fn.op = "parseValue" /\ fn.type = "BigInt") =>
    /\ fn.value = <<"1", ".", "2", "3", "E", "+", "5">> =>
         fn.res = Str(<<"1", "2", "3", "0", "0", "0">>)
    /\ fn.value = <<"5", "e", "3">> => fn.res = Str(<<"5", "0", "0", "0">>)
    /\ fn.value = <<"1", "0", "0">> => fn.res = Str(<<"1", "0", "0">>)
    /\ fn.value = <<"0">> => fn.res = Str(<<"0">>)
    /\ PlainInteger(fn.value) => (fn.res.t = "string" /\ SameDigits(fn.res.s, fn.value))

\* C27's case: an integer text of 25 digits has come back unchanged.
C27_Witness ==
  /\ fn.op = "parseValue"
  /\ fn.type = "BigInt"
  /\ fn.value = LongInteger
  /\ fn.res = Str(LongInteger)

\* C28: in every agent, boolean coercion of a non-empty text yields a
\* proper boolean: true for "1" and for "true" in any letter case, false
\* for every other text; never null and never a value of another type.
C28_BoolCoercionYieldsBoolean ==
  (fn.op \in {"parseValue", "parseValueRL"} /\ fn.type = "bool"
     /\ fn.value # Undefined /\ fn.value # <<>>)
    => fn.res = Bool(ToLowerCase(fn.value) = TRUE_TEXT \/ fn.value = <<"1">>)

\* The chunk loop of a pass has finished a chunk (its lines are parsed,
\* position and offset are advanced) and goes on to read the next one.
ChunkDone ==
  /\ pass.pc \in {"read", "parse", "send"}
  /\ pass'.pc = "read"
  /\ pass'.position > pass.position

\* C29: the offset is persisted after every processed chunk: when a pass
\* has parsed the lines of a chunk and goes on to the next chunk, the offset
\* record of the file holds the position after the chunk just processed, so
\* a kill between two chunks resumes there.
C29_OffsetPersistedAfterEveryChunk ==
  [][ChunkDone => store'[pass'.fh] = pass'.position]_vars

\* C30: in every agent the offset record is written only after the final
\* flush of the pass has been issued: in the step that writes the record,
\* no record mapped from the lines the offset covers is still waiting in
\* the batch without having been passed to a send or insert call. The
\* chunked agent's batch is empty at its write; every record in the
\* readline agent's batch has been passed to an insert call.
C30_OffsetWrittenAfterFinalFlush ==
  [][/\ (pass.pc = "save" /\ pass'.pc = "close") => batch = <<>>
     /\ offsetFile' # offsetFile => Len(rlBatch') <= rlIssued']_vars

\* A pass ends in an I/O exception of its stat, its open or one of its reads.
IOErrorEnds ==
  /\ pass.pc \in {"stat", "open", "read"}
  /\ pass'.pc = "idle"
  /\ crashes' = crashes

\* Every terminated line of file f that ends at or before position o has
\* been passed to the parser.
ParsedUpTo(f, o) ==
  \A e \in 1..Min(o, Len(content[f])) :
    content[f][e] = NL =>
      \E i \in DOMAIN handed : handed[i].file = f /\ handed[i].end = e

\* C31: a pass that ends in an I/O exception (stat, open or read failure)
\* leaves the offset record and the in-memory offset as they were, and
\* neither is past a line that was not passed to the parser: the offset
\* has advanced only over chunks whose lines were all parsed.
C31_IOErrorLeavesOffsetRecord ==
  [][IOErrorEnds =>
       /\ store' = store
       /\ offset' = offset
       /\ ParsedUpTo(currentFilePath, offset')
       /\ ParsedUpTo(currentFilePath, store'[currentFilePath])]_vars

\* C31's case: a pass parsed the lines of its first chunk and advanced the
\* in-memory offset, then a read failed: the pass has ended with records
\* still in the batch and no offset record written.
C31_Witness ==
  /\ crashes = 0
  /\ boot = "up"
  /\ pass.pc = "idle"
  /\ batch # <<>>
  /\ offset > 0
  /\ store[currentFilePath] = NoRecord

\* The stat of a pass resolves with a size equal to the in-memory offset.
SizeIsOffset ==
  /\ pass.pc = "stat"
  /\ pass'.pc # "stat"
  /\ Len(content[pass.path]) = offset
  /\ crashes' = crashes

\* C32: a pass that finds the file size equal to the in-memory offset is
\* a no-op: it ends there without opening the file, issues no send, writes
\* no offset record, passes no line to the parser, and leaves offset,
\* partialLine and batch as they were.
C32_SameSizePassIsNoOp ==
  [][SizeIsOffset =>
       /\ pass'.pc = "idle"
       /\ pass.fh = NoFile
       /\ handle' = handle
       /\ sent' = sent
       /\ store' = store
       /\ handed' = handed
       /\ offset' = offset
       /\ partialLine' = partialLine
       /\ batch' = batch
       /\ ~isProcessing']_vars

\* C32's case: a tick on a file that earlier passes read to its end: the
\* stat is issued, the size is the saved offset, a fragment is carried.
C32_Witness ==
  /\ crashes = 0
  /\ pass.pc = "stat"
  /\ offset > 0
  /\ Len(content[pass.path]) = offset
  /\ store[pass.path] = offset
  /\ partialLine # <<>>
  /\ sent # <<>>

\* A pass has opened its file and has not returned yet.
InPass == pass.pc \in {"read", "parse", "send", "flush", "save", "close"}

\* C33: a pass never reads beyond the file size its stat observed, also
\* when the file grows during the pass: its position, the chunk it holds
\* and the in-memory offset stay within that size; and once its offset
\* write has completed, the in-memory offset and the offset record both
\* equal that size.
C33_OffsetIsObservedSize ==
  InPass =>
    /\ pass.position <= pass.size
    /\ offset <= pass.size
    /\ pass.pc \in {"parse", "send"} => pass.position + pass.bytesRead <= pass.size
    /\ pass.pc = "close" =>
         /\ pass.position = pass.size
         /\ offset = pass.size
         /\ store[pass.fh] = pass.size

\* C33's case: a pass over several chunks has written its offset record
\* and is about to return, and the file has grown since its stat.
C33_Witness ==
  /\ crashes = 0
  /\ pass.pc = "close"
  /\ pass.size > chunkSize
  /\ Len(content[pass.fh]) > pass.size
  /\ offset = pass.size
  /\ store[pass.fh] = pass.size

\* The line has at most the columns of the schema and one more.
AtMostOneExtra(line) == Len(LenientFields(line)) <= Len(LenientSchema)

\* C34: in the lenient agent parseCsvRow settles for every line, the empty
\* one included; and a non-empty line with fewer fields than the schema,
\* or with one trailing extra field, is pushed as a record that holds its
\* fields, null for each missing trailing field, and no extra field.
C34_LenientLineIsEmitted ==
  fn.op = "lenientLine" =>
    /\ fn.res.settled \in {"resolve", "reject"}
    /\ (fn.line # <<>> /\ AtMostOneExtra(fn.line)) =>
         /\ fn.res.pushed
         /\ fn.res.rec["_extra"] = Null
         /\ \A i \in 1..(Len(LenientSchema) - 1) :
              i > Len(LenientFields(fn.line)) => fn.res.rec[LenientSchema[i].db] = Null

\* A read of the pass returns bytes while a non-empty tail is carried.
ReadOntoTail ==
  /\ pass.pc = "read"
  /\ partialLine # <<>>
  /\ partialLine' # partialLine \/ handed' # handed
  /\ sw' = sw
  /\ crashes' = crashes

\* C35: no line passed to the parser mixes bytes of two files: whenever
\* the bytes read from a file are appended to a carried tail, the tail
\* holds bytes of that file only, also when a switch happens while a read
\* pass is in progress.
C35_NoLineMixesTwoFiles ==
  [][ReadOntoTail => partialFrom \subseteq {pass.fh}]_vars

\* The file handles the agent holds open: the one openCsvFile keeps, the
\* one of the running pass, and those left open by passes that have ended.
Held ==
  (IF handle # NoFile THEN 1 ELSE 0) + (IF pass.fh # NoFile THEN 1 ELSE 0) + leaked

\* C36: every file handle opened by a read pass is closed by the time the
\* pass ends, however it ends, so no handle of an ended pass is open and
\* the agent holds at most 2 file handles in every reachable state.
C36_PassHandleClosedAtEnd ==
  /\ leaked = 0
  /\ Held <= 2

\* The send of an insertBatch call settles: the call goes on to batch = [].
InsertSettles ==
  \E c \in 1..MaxCalls : calls[c].pc \in {"send", "flush"} /\ calls'[c] # calls[c]

\* A processNewData call passes the batch to an insert and awaits it.
InsertIssued ==
  \E c \in 1..MaxCalls :
    calls[c].pc \notin {"send", "flush"} /\ calls'[c].pc \in {"send", "flush"}

\* C37: in the readline agents every record pushed to the shared batch
\* is in the payload of exactly one insert call: when insertBatch empties
\* the batch, every record in it has been passed to an insert call, and
\* when a call passes the batch to an insert, no record in it has been
\* passed to one before.
C37_BatchRecordSentExactlyOnce ==
  [][/\ InsertSettles => Len(rlBatch) <= rlIssued
     /\ InsertIssued => rlIssued = 0]_vars

\* C38: in the readline agents each line of the file is mapped at most
\* once across passes and only when complete: no line is mapped a second
\* time, also when the file grows between a pass's stat and the end of
\* its stream, and every line mapped was followed by its terminator.
C38_LineMappedOnceWhenComplete ==
  /\ rlMapped.repeated = {}
  /\ \A l \in rlMapped.lines : l.complete

\* C39: in index2.js the offset write of a pass has completed, or its
\* failure has been caught inside the pass, before the pass ends and the
\* guard is released: with the guard free no offset write is under way,
\* no write of an earlier pass reaches the offset store after the write of
\* a later one, and no failed write is an unhandled rejection.
C39_OffsetWriteSettledInsidePass ==
  /\ ~i2.isProcessing => i2.pending = {}
  /\ ~i2.overtaken
  /\ ~i2.unhandled

====
